---- MODULE Spec2Model ----
(***************************************************************************)
(* lib-analytics-core: the AnalyticsClient batching / dispatch engine.     *)
(*                                                                         *)
(* Producers call track / track_if on client handles; every call enriches  *)
(* the event and pushes the envelope on an unbounded mpsc channel.  One    *)
(* background task (send_loop) receives envelopes into a batch and flushes *)
(* the batch with one HTTP POST when it holds BATCH_SIZE envelopes or when *)
(* the 10 s interval ticks with a non-empty batch (send_batch).            *)
(*                                                                         *)
(* Time is a discrete clock `now`; the tokio interval is its next deadline *)
(* (`deadline`), advanced by one period per tick whatever the instant the  *)
(* tick is handled (tokio's default MissedTickBehavior::Burst).            *)
(***************************************************************************)
EXTENDS Integers, Sequences, FiniteSets, TLC

(* ------------------------------------------------------------------ *)
(* Program constants                                                    *)
(* ------------------------------------------------------------------ *)

\* client.rs:70,83  Vec::with_capacity(100) / batch.len() >= 100
BATCH_SIZE == 100

\* client.rs:71  tokio::time::interval(Duration::from_secs(10))
Period == 10

(* ------------------------------------------------------------------ *)
(* Bounds of the model                                                  *)
(* ------------------------------------------------------------------ *)

\* track calls that enrich an event, after the initial state
MaxCalls == 3

\* the clock stops at MaxTime; it advances in steps of CoarseStep where the
\* dispatcher may lag arbitrarily, and of FineStep where it is prompt
MaxTime == 20
CoarseStep == 10
FineStep == 5

\* the clock's last instant in the run of two and a half batches
BurstHorizon == 15

\* envelopes still to come when a run starts with a nearly full batch
Headroom == 2

Producers == {"p1", "p2"}

\* client.rs:20,136  the URL of the documentation and of the tests
ServiceUrl == "http://localhost:8094"

\* client.rs:61  the URL noop() builds its client with
NoopUrl == "http://localhost:9999"

\* what one POST attempt can come to (client.rs:111-125)
Outcomes == {"success", "http_error", "transport_error", "serialization_error"}
FailureOutcomes == Outcomes \ {"success"}

VARIABLES
    handles,      \* producers holding a live clone of the client (a Sender)
    calls_made,   \* per producer: number of events it has enriched so far
    calls_left,   \* enriching calls the producers may still make in this run
    last_call,    \* the most recent producer API call and what it returned
    runtime,      \* whether the constructing thread has entered a Tokio runtime
    construction, \* AnalyticsClient::new: "pending", "returned" or "panicked"
    tasks,        \* number of send_loop tasks spawned so far
    analytics_url, \* the base URL the client was built with ("": none yet)
    environ,      \* the process environment: HOSTNAME and ENVIRONMENT
    queue,        \* the mpsc channel's contents, oldest first
    pc,           \* where send_loop is: "unspawned", "init", "select", "sending",
                  \* "terminated"
    batch,        \* send_loop's local Vec<EnrichedEvent>
    now,          \* the clock
    deadline,     \* the interval's next tick instant
    last_tick,    \* the instant the last tick was handled (-1: none yet)
    inflight,     \* POST attempts started and not yet returned (batches)
    last_outcome, \* outcome of the last POST attempt ("none": no attempt yet)
    log,          \* level of the last tracing record ("none", "debug", "warn")
    pushed,       \* history: envelopes the channel accepted, in push order
    handed,       \* history: envelopes handed to the Transport, in order
    flushes       \* history: one record per flush attempt started

vars == <<handles, calls_made, calls_left, last_call, runtime, construction, tasks,
          analytics_url, environ, queue, pc, batch, now, deadline, last_tick, inflight,
          last_outcome, log, pushed, handed, flushes>>

\* what tracking and dispatching leave alone: how the client was built, and
\* the environment of the process
setupVars == <<runtime, construction, tasks, analytics_url, environ>>

producerVars == <<handles, calls_made, calls_left, last_call, pushed, setupVars>>
loopVars == <<pc, batch, deadline, last_tick, inflight, last_outcome, log,
              handed, flushes>>

(* ------------------------------------------------------------------ *)
(* Helpers                                                              *)
(* ------------------------------------------------------------------ *)

Range(s) == {s[i] : i \in 1..Len(s)}

NoCall == [op |-> "none", cond |-> FALSE, sent |-> FALSE, ret |-> "none"]

\* the event the repository's own callers track (client.rs:140): variants are
\* named by their place in the enum, AuthLoginAttempt is the first
SampleEvent == 1

\* a process environment with neither HOSTNAME nor ENVIRONMENT set
NoTags == [HOSTNAME |-> <<>>, ENVIRONMENT |-> <<>>]

(* ------------------------------------------------------------------ *)
(* Enricher (events.rs:329-338)                                         *)
(* ------------------------------------------------------------------ *)

\* std::env::var(name).ok(): None (the empty sequence) when the variable is
\* not set, Some(value) (a one-element sequence) when it is
EnvVar(name) == environ[name]

\* The raw event is named by its variant, the producer that built it and that
\* producer's call number (the variant's fields are opaque to the client).
\* timestamp is Utc::now() at the call; hostname and environment are read
\* from the process environment at the call.
EnrichedEvent_new(v, p, n, t) ==
    [timestamp |-> t, variant |-> v, producer |-> p, seq |-> n,
     hostname |-> EnvVar("HOSTNAME"), environment |-> EnvVar("ENVIRONMENT")]

(* ------------------------------------------------------------------ *)
(* Event catalog and serialization (events.rs)                          *)
(* ------------------------------------------------------------------ *)

\* events.rs:9-237  the variants of AnalyticsEvent in declaration order, each
\* by its name, one character per element
VariantName == <<
    \* 1: AuthLoginAttempt (events.rs:11)
    <<"A", "u", "t", "h", "L", "o", "g", "i", "n", "A", "t", "t", "e", "m", "p", "t">>,
    \* 2: AuthCodeVerified (events.rs:19)
    <<"A", "u", "t", "h", "C", "o", "d", "e", "V", "e", "r", "i", "f", "i", "e", "d">>,
    \* 3: AuthTokenRefresh (events.rs:26)
    <<"A", "u", "t", "h", "T", "o", "k", "e", "n", "R", "e", "f", "r", "e", "s", "h">>,
    \* 4: AuthSessionValidated (events.rs:33)
    <<"A", "u", "t", "h", "S", "e", "s", "s", "i", "o", "n", "V", "a", "l", "i", "d", "a", "t", "e", "d">>,
    \* 5: TaskCreated (events.rs:40)
    <<"T", "a", "s", "k", "C", "r", "e", "a", "t", "e", "d">>,
    \* 6: TaskStarted (events.rs:49)
    <<"T", "a", "s", "k", "S", "t", "a", "r", "t", "e", "d">>,
    \* 7: TaskCompleted (events.rs:56)
    <<"T", "a", "s", "k", "C", "o", "m", "p", "l", "e", "t", "e", "d">>,
    \* 8: TaskFailed (events.rs:64)
    <<"T", "a", "s", "k", "F", "a", "i", "l", "e", "d">>,
    \* 9: TaskCancelled (events.rs:73)
    <<"T", "a", "s", "k", "C", "a", "n", "c", "e", "l", "l", "e", "d">>,
    \* 10: IntegrationConnected (events.rs:81)
    <<"I", "n", "t", "e", "g", "r", "a", "t", "i", "o", "n", "C", "o", "n", "n", "e", "c", "t", "e", "d">>,
    \* 11: IntegrationDisconnected (events.rs:89)
    <<"I", "n", "t", "e", "g", "r", "a", "t", "i", "o", "n", "D", "i", "s", "c", "o", "n", "n", "e", "c", "t", "e", "d">>,
    \* 12: IntegrationUsed (events.rs:97)
    <<"I", "n", "t", "e", "g", "r", "a", "t", "i", "o", "n", "U", "s", "e", "d">>,
    \* 13: IntegrationError (events.rs:105)
    <<"I", "n", "t", "e", "g", "r", "a", "t", "i", "o", "n", "E", "r", "r", "o", "r">>,
    \* 14: OAuthFlowStarted (events.rs:113)
    <<"O", "A", "u", "t", "h", "F", "l", "o", "w", "S", "t", "a", "r", "t", "e", "d">>,
    \* 15: OAuthFlowCompleted (events.rs:120)
    <<"O", "A", "u", "t", "h", "F", "l", "o", "w", "C", "o", "m", "p", "l", "e", "t", "e", "d">>,
    \* 16: WebhookReceived (events.rs:129)
    <<"W", "e", "b", "h", "o", "o", "k", "R", "e", "c", "e", "i", "v", "e", "d">>,
    \* 17: WebhookProcessed (events.rs:137)
    <<"W", "e", "b", "h", "o", "o", "k", "P", "r", "o", "c", "e", "s", "s", "e", "d">>,
    \* 18: CocoonRegistered (events.rs:149)
    <<"C", "o", "c", "o", "o", "n", "R", "e", "g", "i", "s", "t", "e", "r", "e", "d">>,
    \* 19: CocoonConnected (events.rs:156)
    <<"C", "o", "c", "o", "o", "n", "C", "o", "n", "n", "e", "c", "t", "e", "d">>,
    \* 20: CocoonDisconnected (events.rs:162)
    <<"C", "o", "c", "o", "o", "n", "D", "i", "s", "c", "o", "n", "n", "e", "c", "t", "e", "d">>,
    \* 21: CocoonClaimed (events.rs:169)
    <<"C", "o", "c", "o", "o", "n", "C", "l", "a", "i", "m", "e", "d">>,
    \* 22: CocoonSetupTokenCreated (events.rs:176)
    <<"C", "o", "c", "o", "o", "n", "S", "e", "t", "u", "p", "T", "o", "k", "e", "n", "C", "r", "e", "a", "t", "e", "d">>,
    \* 23: CocoonSetupTokenUsed (events.rs:183)
    <<"C", "o", "c", "o", "o", "n", "S", "e", "t", "u", "p", "T", "o", "k", "e", "n", "U", "s", "e", "d">>,
    \* 24: ProjectCreated (events.rs:191)
    <<"P", "r", "o", "j", "e", "c", "t", "C", "r", "e", "a", "t", "e", "d">>,
    \* 25: ProjectUpdated (events.rs:198)
    <<"P", "r", "o", "j", "e", "c", "t", "U", "p", "d", "a", "t", "e", "d">>,
    \* 26: ProjectDeleted (events.rs:204)
    <<"P", "r", "o", "j", "e", "c", "t", "D", "e", "l", "e", "t", "e", "d">>,
    \* 27: ApiRequest (events.rs:211)
    <<"A", "p", "i", "R", "e", "q", "u", "e", "s", "t">>,
    \* 28: DatabaseQuery (events.rs:222)
    <<"D", "a", "t", "a", "b", "a", "s", "e", "Q", "u", "e", "r", "y">>,
    \* 29: ApplicationError (events.rs:231)
    <<"A", "p", "p", "l", "i", "c", "a", "t", "i", "o", "n", "E", "r", "r", "o", "r">>
>>

Variants == 1..Len(VariantName)

\* events.rs:241-274  the literal each arm of event_type() returns
EventTypeLiteral == <<
    \* AuthLoginAttempt => "auth_login_attempt" (events.rs:244)
    <<"a", "u", "t", "h", "_", "l", "o", "g", "i", "n", "_", "a", "t", "t", "e", "m", "p", "t">>,
    \* AuthCodeVerified => "auth_code_verified" (events.rs:245)
    <<"a", "u", "t", "h", "_", "c", "o", "d", "e", "_", "v", "e", "r", "i", "f", "i", "e", "d">>,
    \* AuthTokenRefresh => "auth_token_refresh" (events.rs:246)
    <<"a", "u", "t", "h", "_", "t", "o", "k", "e", "n", "_", "r", "e", "f", "r", "e", "s", "h">>,
    \* AuthSessionValidated => "auth_session_validated" (events.rs:247)
    <<"a", "u", "t", "h", "_", "s", "e", "s", "s", "i", "o", "n", "_", "v", "a", "l", "i", "d", "a", "t", "e", "d">>,
    \* TaskCreated => "task_created" (events.rs:248)
    <<"t", "a", "s", "k", "_", "c", "r", "e", "a", "t", "e", "d">>,
    \* TaskStarted => "task_started" (events.rs:249)
    <<"t", "a", "s", "k", "_", "s", "t", "a", "r", "t", "e", "d">>,
    \* TaskCompleted => "task_completed" (events.rs:250)
    <<"t", "a", "s", "k", "_", "c", "o", "m", "p", "l", "e", "t", "e", "d">>,
    \* TaskFailed => "task_failed" (events.rs:251)
    <<"t", "a", "s", "k", "_", "f", "a", "i", "l", "e", "d">>,
    \* TaskCancelled => "task_cancelled" (events.rs:252)
    <<"t", "a", "s", "k", "_", "c", "a", "n", "c", "e", "l", "l", "e", "d">>,
    \* IntegrationConnected => "integration_connected" (events.rs:253)
    <<"i", "n", "t", "e", "g", "r", "a", "t", "i", "o", "n", "_", "c", "o", "n", "n", "e", "c", "t", "e", "d">>,
    \* IntegrationDisconnected => "integration_disconnected" (events.rs:254)
    <<"i", "n", "t", "e", "g", "r", "a", "t", "i", "o", "n", "_", "d", "i", "s", "c", "o", "n", "n", "e", "c", "t", "e", "d">>,
    \* IntegrationUsed => "integration_used" (events.rs:255)
    <<"i", "n", "t", "e", "g", "r", "a", "t", "i", "o", "n", "_", "u", "s", "e", "d">>,
    \* IntegrationError => "integration_error" (events.rs:256)
    <<"i", "n", "t", "e", "g", "r", "a", "t", "i", "o", "n", "_", "e", "r", "r", "o", "r">>,
    \* OAuthFlowStarted => "oauth_flow_started" (events.rs:257)
    <<"o", "a", "u", "t", "h", "_", "f", "l", "o", "w", "_", "s", "t", "a", "r", "t", "e", "d">>,
    \* OAuthFlowCompleted => "oauth_flow_completed" (events.rs:258)
    <<"o", "a", "u", "t", "h", "_", "f", "l", "o", "w", "_", "c", "o", "m", "p", "l", "e", "t", "e", "d">>,
    \* WebhookReceived => "webhook_received" (events.rs:259)
    <<"w", "e", "b", "h", "o", "o", "k", "_", "r", "e", "c", "e", "i", "v", "e", "d">>,
    \* WebhookProcessed => "webhook_processed" (events.rs:260)
    <<"w", "e", "b", "h", "o", "o", "k", "_", "p", "r", "o", "c", "e", "s", "s", "e", "d">>,
    \* CocoonRegistered => "cocoon_registered" (events.rs:261)
    <<"c", "o", "c", "o", "o", "n", "_", "r", "e", "g", "i", "s", "t", "e", "r", "e", "d">>,
    \* CocoonConnected => "cocoon_connected" (events.rs:262)
    <<"c", "o", "c", "o", "o", "n", "_", "c", "o", "n", "n", "e", "c", "t", "e", "d">>,
    \* CocoonDisconnected => "cocoon_disconnected" (events.rs:263)
    <<"c", "o", "c", "o", "o", "n", "_", "d", "i", "s", "c", "o", "n", "n", "e", "c", "t", "e", "d">>,
    \* CocoonClaimed => "cocoon_claimed" (events.rs:264)
    <<"c", "o", "c", "o", "o", "n", "_", "c", "l", "a", "i", "m", "e", "d">>,
    \* CocoonSetupTokenCreated => "cocoon_setup_token_created" (events.rs:265)
    <<"c", "o", "c", "o", "o", "n", "_", "s", "e", "t", "u", "p", "_", "t", "o", "k", "e", "n", "_", "c", "r", "e", "a", "t", "e", "d">>,
    \* CocoonSetupTokenUsed => "cocoon_setup_token_used" (events.rs:266)
    <<"c", "o", "c", "o", "o", "n", "_", "s", "e", "t", "u", "p", "_", "t", "o", "k", "e", "n", "_", "u", "s", "e", "d">>,
    \* ProjectCreated => "project_created" (events.rs:267)
    <<"p", "r", "o", "j", "e", "c", "t", "_", "c", "r", "e", "a", "t", "e", "d">>,
    \* ProjectUpdated => "project_updated" (events.rs:268)
    <<"p", "r", "o", "j", "e", "c", "t", "_", "u", "p", "d", "a", "t", "e", "d">>,
    \* ProjectDeleted => "project_deleted" (events.rs:269)
    <<"p", "r", "o", "j", "e", "c", "t", "_", "d", "e", "l", "e", "t", "e", "d">>,
    \* ApiRequest => "api_request" (events.rs:270)
    <<"a", "p", "i", "_", "r", "e", "q", "u", "e", "s", "t">>,
    \* DatabaseQuery => "database_query" (events.rs:271)
    <<"d", "a", "t", "a", "b", "a", "s", "e", "_", "q", "u", "e", "r", "y">>,
    \* ApplicationError => "application_error" (events.rs:272)
    <<"a", "p", "p", "l", "i", "c", "a", "t", "i", "o", "n", "_", "e", "r", "r", "o", "r">>
>>

event_type(v) == EventTypeLiteral[v]

UpperToLower ==
    [A |-> "a", B |-> "b", C |-> "c", D |-> "d", E |-> "e", F |-> "f", G |-> "g",
     H |-> "h", I |-> "i", J |-> "j", K |-> "k", L |-> "l", M |-> "m", N |-> "n",
     O |-> "o", P |-> "p", Q |-> "q", R |-> "r", S |-> "s", T |-> "t", U |-> "u",
     V |-> "v", W |-> "w", X |-> "x", Y |-> "y", Z |-> "z"]

is_uppercase(c) == c \in DOMAIN UpperToLower
to_ascii_lowercase(c) == IF is_uppercase(c) THEN UpperToLower[c] ELSE c

\* events.rs:7  rename_all = "snake_case" applied to a variant name: every
\* character is lowercased, and every uppercase character but the first gets
\* an underscore in front of it
RECURSIVE snake_case_from(_, _)
snake_case_from(name, i) ==
    IF i > Len(name)
    THEN <<>>
    ELSE (IF i > 1 /\ is_uppercase(name[i]) THEN <<"_">> ELSE <<>>)
         \o <<to_ascii_lowercase(name[i])>>
         \o snake_case_from(name, i + 1)

snake_case(name) == snake_case_from(name, 1)

\* events.rs:6-8  the enum is internally tagged: an event is one JSON object
\* holding the renamed variant name under "type" next to the variant's own
\* fields (here `fields`, which stands for them and names the event)
SerializeEvent(e) ==
    [type |-> snake_case(VariantName[e.variant]),
     fields |-> <<e.producer, e.seq>>]

\* events.rs:320-327  derive(Serialize) on the struct: one key per field, the
\* event under the key "event"; an Option is null (the empty sequence) or the
\* value
SerializeEnvelope(e) ==
    [timestamp |-> e.timestamp,
     event |-> SerializeEvent(e),
     hostname |-> e.hostname,
     environment |-> e.environment]

\* client.rs:111  .json(&batch): the Vec as a JSON array, element by element
JsonBody(b) == [i \in 1..Len(b) |-> SerializeEnvelope(b[i])]

(* ------------------------------------------------------------------ *)
(* Channel (client.rs:13,24): UnboundedSender::send / Receiver          *)
(* ------------------------------------------------------------------ *)

\* The receiver lives inside the spawned task; it is gone once the task is.
ReceiverAlive == pc # "terminated"

\* send() never waits; it fails only when the receiver is gone.
SendResult == IF ReceiverAlive THEN "Ok" ELSE "Err"

\* variant: the send error reaches the caller (`self.sender.send(enriched)?`)
track_return_propagating(send_result) ==
    IF send_result = "Ok" THEN "unit" ELSE "error"

\* client.rs:49  `let _ = self.sender.send(enriched);`  the Result is dropped
track_return(send_result) == "unit"

(* ------------------------------------------------------------------ *)
(* Process environment                                                  *)
(* ------------------------------------------------------------------ *)

\* the same envelopes, carrying the given tags
Retagged(s, tags) ==
    [i \in 1..Len(s) |->
       [s[i] EXCEPT !.hostname = tags.HOSTNAME, !.environment = tags.ENVIRONMENT]]

\* variant: an envelope holds no tags of its own but looks them up when it
\* is read, so a change of the environment shows on the envelopes waiting
SetEnv_retroactive(tags) ==
    /\ tags # environ
    /\ environ' = tags
    /\ queue' = Retagged(queue, tags)
    /\ batch' = Retagged(batch, tags)
    /\ UNCHANGED <<runtime, construction, tasks, analytics_url>>
    /\ UNCHANGED <<handles, calls_made, calls_left, last_call, pushed, now>>
    /\ UNCHANGED <<pc, deadline, last_tick, inflight, last_outcome, log,
                   handed, flushes>>

\* events.rs:334-335  the two variables are process state, which the process
\* may set or remove at any moment (std::env::set_var / remove_var); the
\* client keeps no copy of them
SetEnv(tags) ==
    /\ tags # environ
    /\ environ' = tags
    /\ UNCHANGED <<runtime, construction, tasks, analytics_url>>
    /\ UNCHANGED <<handles, calls_made, calls_left, last_call, pushed, now>>
    /\ UNCHANGED <<queue, pc, batch, deadline, last_tick, inflight, last_outcome,
                   log, handed, flushes>>

(* ------------------------------------------------------------------ *)
(* Construction                                                         *)
(* ------------------------------------------------------------------ *)

\* client.rs:23-40  the channel is created, then tokio::spawn starts send_loop
\* on the runtime the calling thread has entered and the handle is returned;
\* on a thread that has entered no runtime tokio::spawn panics: new does not
\* return, and the channel it had created is dropped in the unwinding
new(url) ==
    /\ construction = "pending"
    /\ analytics_url' = url
    /\ IF runtime
       THEN /\ construction' = "returned"
            /\ tasks' = tasks + 1
            /\ pc' = "init"
            /\ handles' = {"p1"}
       ELSE /\ construction' = "panicked"
            /\ UNCHANGED <<tasks, pc, handles>>
    /\ UNCHANGED <<runtime, environ, calls_made, calls_left, last_call, pushed>>
    /\ UNCHANGED <<batch, deadline, last_tick, inflight, last_outcome, log,
                   handed, flushes, queue, now>>

\* client.rs:60-62
noop == new(NoopUrl)

(* ------------------------------------------------------------------ *)
(* Producer API                                                         *)
(* ------------------------------------------------------------------ *)

\* client.rs:46-50
track(p, v, op, cond) ==
    LET enriched == EnrichedEvent_new(v, p, calls_made[p] + 1, now)
        r == SendResult
    IN  /\ calls_made' = [calls_made EXCEPT ![p] = @ + 1]
        /\ calls_left' = calls_left - 1
        /\ queue' = IF r = "Ok" THEN Append(queue, enriched) ELSE queue
        /\ pushed' = IF r = "Ok" THEN Append(pushed, enriched) ELSE pushed
        /\ last_call' = [op |-> op, cond |-> cond, sent |-> (r = "Ok"),
                         ret |-> track_return(r)]

Track(p, v) ==
    /\ p \in handles
    /\ calls_left > 0
    /\ track(p, v, "track", TRUE)
    /\ UNCHANGED <<handles, now>>
    /\ UNCHANGED setupVars
    /\ UNCHANGED loopVars

\* variant: the condition is tested the wrong way round
TrackIf_inverted(p, v, condition) ==
    /\ p \in handles
    /\ calls_left > 0
    /\ IF ~condition
       THEN track(p, v, "track_if", condition)
       ELSE /\ last_call' = [op |-> "track_if", cond |-> condition,
                             sent |-> FALSE, ret |-> "unit"]
            /\ UNCHANGED <<calls_made, calls_left, queue, pushed>>
    /\ UNCHANGED <<handles, now>>
    /\ UNCHANGED setupVars
    /\ UNCHANGED loopVars

\* client.rs:53-57
TrackIf(p, v, condition) ==
    /\ p \in handles
    /\ calls_left > 0
    /\ IF condition
       THEN track(p, v, "track_if", condition)
       ELSE /\ last_call' = [op |-> "track_if", cond |-> condition,
                             sent |-> FALSE, ret |-> "unit"]
            /\ UNCHANGED <<calls_made, calls_left, queue, pushed>>
    /\ UNCHANGED <<handles, now>>
    /\ UNCHANGED setupVars
    /\ UNCHANGED loopVars

\* variant: a clone that builds a client of its own, with its own task
CloneHandle_respawn(p, q) ==
    /\ p \in handles
    /\ q \notin handles
    /\ handles' = handles \cup {q}
    /\ tasks' = tasks + 1
    /\ UNCHANGED <<calls_made, calls_left, last_call, queue, pushed, now>>
    /\ UNCHANGED <<runtime, construction, analytics_url, environ>>
    /\ UNCHANGED loopVars

\* client.rs:9  #[derive(Clone)]: another Sender on the same channel
CloneHandle(p, q) ==
    /\ p \in handles
    /\ q \notin handles
    /\ handles' = handles \cup {q}
    /\ UNCHANGED <<calls_made, calls_left, last_call, queue, pushed, now>>
    /\ UNCHANGED setupVars
    /\ UNCHANGED loopVars

\* a handle goes out of scope
DropHandle(p) ==
    /\ p \in handles
    /\ handles' = handles \ {p}
    /\ UNCHANGED <<calls_made, calls_left, last_call, queue, pushed, now>>
    /\ UNCHANGED setupVars
    /\ UNCHANGED loopVars

(* ------------------------------------------------------------------ *)
(* Dispatcher: send_loop and send_batch                                 *)
(* ------------------------------------------------------------------ *)

\* variant: the envelope is put at the front of the batch
BatchPush_front(b, e) == <<e>> \o b

\* client.rs:80  batch.push(event)
BatchPush(b, e) == Append(b, e)

\* variant: no size trigger, the batch is flushed on ticks only
BatchFull_never(b) == FALSE

\* variant: the threshold test written with > instead of >=
BatchFull_strict(b) == Len(b) > BATCH_SIZE

\* client.rs:83  batch.len() >= 100
BatchFull(b) == Len(b) >= BATCH_SIZE

\* variant: the emptiness test without its negation
BatchPending_inverted(b) == b = <<>>

\* client.rs:90  !batch.is_empty()
BatchPending(b) == b # <<>>

\* variant: the POST is started but not awaited (spawned on its own task), so
\* the loop goes back to select! with the request still in flight
SendBatchBegin_detached(b, trigger) ==
    IF Len(b) = 0
    THEN /\ pc' = "select"
         /\ UNCHANGED <<inflight, handed, flushes>>
    ELSE /\ pc' = "select"
         /\ inflight' = Append(inflight, b)
         /\ handed' = handed \o b
         /\ flushes' = Append(flushes, [trigger |-> trigger, size |-> Len(b)])

\* variant: the envelopes are stamped again when their batch is sent
SendBatchBegin_restamping(b, trigger) ==
    LET sent == [i \in 1..Len(b) |-> [b[i] EXCEPT !.timestamp = now]]
    IN  IF Len(b) = 0
        THEN /\ pc' = "select"
             /\ UNCHANGED <<inflight, handed, flushes>>
        ELSE /\ pc' = "sending"
             /\ inflight' = Append(inflight, sent)
             /\ handed' = handed \o sent
             /\ flushes' = Append(flushes, [trigger |-> trigger, size |-> Len(b)])

\* client.rs:99-111  send_batch up to the awaited POST
SendBatchBegin(b, trigger) ==
    IF Len(b) = 0
    THEN /\ pc' = "select"
         /\ UNCHANGED <<inflight, handed, flushes>>
    ELSE /\ pc' = "sending"
         /\ inflight' = Append(inflight, b)
         /\ handed' = handed \o b
         /\ flushes' = Append(flushes, [trigger |-> trigger, size |-> Len(b)])

\* variant: the immediate first tick is not consumed before the loop
SkipFirstTick_missing ==
    /\ pc = "init"
    /\ pc' = "select"
    /\ deadline' = now
    /\ last_tick' = now
    /\ UNCHANGED <<batch, inflight, last_outcome, log, handed, flushes>>
    /\ UNCHANGED <<queue, now>>
    /\ UNCHANGED producerVars

\* client.rs:70-74  the interval is created and its immediate first tick consumed
SkipFirstTick ==
    /\ pc = "init"
    /\ pc' = "select"
    /\ deadline' = now + Period
    /\ last_tick' = now
    /\ UNCHANGED <<batch, inflight, last_outcome, log, handed, flushes>>
    /\ UNCHANGED <<queue, now>>
    /\ UNCHANGED producerVars

\* variant: the POST is one more branch of the select!, so the loop goes on
\* receiving while the request is in flight
RecvEvent_during_flush ==
    /\ pc \in {"select", "sending"}
    /\ queue # <<>>
    /\ LET b == BatchPush(batch, Head(queue))
       IN  /\ batch' = b
           /\ queue' = Tail(queue)
           /\ IF BatchFull(b) /\ pc = "select"
              THEN SendBatchBegin(b, "size")
              ELSE UNCHANGED <<pc, inflight, handed, flushes>>
    /\ UNCHANGED <<deadline, last_tick, last_outcome, log, now>>
    /\ UNCHANGED producerVars

\* variant: a size-triggered flush restarts the interval (interval.reset())
RecvEvent_resetting ==
    /\ pc = "select"
    /\ queue # <<>>
    /\ LET b == BatchPush(batch, Head(queue))
       IN  /\ batch' = b
           /\ queue' = Tail(queue)
           /\ IF BatchFull(b)
              THEN /\ SendBatchBegin(b, "size")
                   /\ deadline' = now + Period
              ELSE UNCHANGED <<pc, inflight, handed, flushes, deadline>>
    /\ UNCHANGED <<last_tick, last_outcome, log, now>>
    /\ UNCHANGED producerVars

\* client.rs:79-86  select! branch `Some(event) = receiver.recv()`
RecvEvent ==
    /\ pc = "select"
    /\ queue # <<>>
    /\ LET b == BatchPush(batch, Head(queue))
       IN  /\ batch' = b
           /\ queue' = Tail(queue)
           /\ IF BatchFull(b)
              THEN SendBatchBegin(b, "size")
              ELSE UNCHANGED <<pc, inflight, handed, flushes>>
    /\ UNCHANGED <<deadline, last_tick, last_outcome, log, now>>
    /\ UNCHANGED producerVars

\* variant: the loop ends when the channel is closed and drained
\* (`None => break`); the task returns and drops what it holds
RecvNone_break ==
    /\ pc = "select"
    /\ handles = {}
    /\ queue = <<>>
    /\ pc' = "terminated"
    /\ batch' = <<>>
    /\ UNCHANGED <<deadline, last_tick, inflight, last_outcome, log, handed,
                   flushes, queue, now>>
    /\ UNCHANGED producerVars

\* client.rs:79  recv() on a channel with no Sender left and nothing queued
\* returns None; the pattern `Some(event)` does not match, select! disables
\* the branch and goes on waiting for the tick: nothing changes
RecvNone ==
    /\ pc = "select"
    /\ handles = {}
    /\ queue = <<>>
    /\ UNCHANGED <<pc, batch, deadline, last_tick, inflight, last_outcome, log,
                   handed, flushes, queue, now>>
    /\ UNCHANGED producerVars

\* variant: a recv future that is not cancel-safe; when the tick branch wins
\* the select!, the envelope that future had already taken is dropped with it
TimerTick_cancel_unsafe ==
    /\ pc = "select"
    /\ now >= deadline
    /\ deadline' = deadline + Period
    /\ last_tick' = now
    /\ queue' = IF queue = <<>> THEN queue ELSE Tail(queue)
    /\ IF BatchPending(batch)
       THEN SendBatchBegin(batch, "time")
       ELSE UNCHANGED <<pc, inflight, handed, flushes>>
    /\ UNCHANGED <<batch, last_outcome, log, now>>
    /\ UNCHANGED producerVars

\* variant: the tick is consumed but the batch is left for a size trigger
TimerTick_idle ==
    /\ pc = "select"
    /\ now >= deadline
    /\ deadline' = deadline + Period
    /\ last_tick' = now
    /\ UNCHANGED <<pc, inflight, handed, flushes>>
    /\ UNCHANGED <<batch, last_outcome, log, queue, now>>
    /\ UNCHANGED producerVars

\* client.rs:89-93  select! branch `_ = interval.tick()`
TimerTick ==
    /\ pc = "select"
    /\ now >= deadline
    /\ deadline' = deadline + Period
    /\ last_tick' = now
    /\ IF BatchPending(batch)
       THEN SendBatchBegin(batch, "time")
       ELSE UNCHANGED <<pc, inflight, handed, flushes>>
    /\ UNCHANGED <<batch, last_outcome, log, queue, now>>
    /\ UNCHANGED producerVars

\* client.rs:112-125  the tracing record written for an outcome
LogLevel(outcome) == IF outcome = "success" THEN "debug" ELSE "warn"

\* variant: the batch is cleared only when the POST succeeded (kept for a retry)
BatchAfterAttempt_keep_on_failure(b, outcome) ==
    IF outcome = "success" THEN <<>> ELSE b

\* client.rs:127  batch.clear(), whatever the outcome
BatchAfterAttempt(b, outcome) == <<>>

\* variant: a batch whose POST failed is put back on the queue for a retry
SendBatchReturns_requeue(outcome) ==
    /\ pc = "sending"
    /\ inflight # <<>>
    /\ inflight' = Tail(inflight)
    /\ last_outcome' = outcome
    /\ log' = LogLevel(outcome)
    /\ queue' = IF outcome = "success" THEN queue ELSE batch \o queue
    /\ batch' = <<>>
    /\ pc' = "select"
    /\ UNCHANGED <<deadline, last_tick, handed, flushes, now>>
    /\ UNCHANGED producerVars

\* client.rs:111-128  the POST attempt returns and send_batch finishes
SendBatchReturns(outcome) ==
    /\ pc = "sending"
    /\ inflight # <<>>
    /\ inflight' = Tail(inflight)
    /\ last_outcome' = outcome
    /\ log' = LogLevel(outcome)
    /\ batch' = BatchAfterAttempt(batch, outcome)
    /\ pc' = "select"
    /\ UNCHANGED <<deadline, last_tick, handed, flushes, queue, now>>
    /\ UNCHANGED producerVars

\* client.rs:31-33  the task lives on the runtime: when the runtime shuts down
\* the task is dropped at its current await, with its receiver, batch and request
RuntimeShutdown ==
    /\ pc # "terminated"
    /\ pc' = "terminated"
    /\ queue' = <<>>
    /\ batch' = <<>>
    /\ inflight' = <<>>
    /\ UNCHANGED <<deadline, last_tick, last_outcome, log, handed, flushes, now>>
    /\ UNCHANGED producerVars

(* ------------------------------------------------------------------ *)
(* Time                                                                 *)
(* ------------------------------------------------------------------ *)

\* the clock moves on by `step`, up to `horizon`; nothing else changes
Advance(step, horizon) ==
    /\ now + step <= horizon
    /\ now' = now + step
    /\ UNCHANGED <<queue>>
    /\ UNCHANGED producerVars
    /\ UNCHANGED loopVars

\* send_loop has a step it can take without waiting: its first poll, or a
\* select! with a ready branch (client.rs:74,77-93)
DispatcherReady ==
    \/ pc = "init"
    \/ pc = "select" /\ (queue # <<>> \/ now >= deadline)

\* time passes only while the task is parked in select! or awaits the POST
AdvancePrompt ==
    /\ ~DispatcherReady
    /\ Advance(FineStep, MaxTime)

\* ... and only once the producer has made all its back-to-back calls
AdvanceAfterBurst ==
    /\ calls_left = 0
    /\ ~DispatcherReady
    /\ Advance(FineStep, BurstHorizon)

(* ------------------------------------------------------------------ *)
(* Specification                                                        *)
(* ------------------------------------------------------------------ *)

\* the envelopes of k calls of producer p, none of them flushed yet
Preloaded(p, k) == [i \in 1..k |-> EnrichedEvent_new(SampleEvent, p, i, 0)]

\* AnalyticsClient::new has returned (client.rs:23-40); with k > 0 the first
\* handle has since tracked k events at instant 0 and the task has received
\* them all (the state that k Track steps, SkipFirstTick and k RecvEvent
\* steps lead to from the fresh one)
InitWith(k, calls) ==
    /\ handles = {"p1"}
    /\ calls_made = [p \in Producers |-> IF p = "p1" THEN k ELSE 0]
    /\ calls_left = calls
    /\ runtime = TRUE
    /\ construction = "returned"
    /\ tasks = 1
    /\ analytics_url = ServiceUrl
    /\ environ = NoTags
    /\ last_call = IF k = 0 THEN NoCall
                   ELSE [op |-> "track", cond |-> TRUE, sent |-> TRUE, ret |-> "unit"]
    /\ queue = <<>>
    /\ pc = IF k = 0 THEN "init" ELSE "select"
    /\ batch = Preloaded("p1", k)
    /\ now = 0
    /\ deadline = IF k = 0 THEN 0 ELSE Period
    /\ last_tick = IF k = 0 THEN -1 ELSE 0
    /\ inflight = <<>>
    /\ last_outcome = "none"
    /\ log = "none"
    /\ pushed = Preloaded("p1", k)
    /\ handed = <<>>
    /\ flushes = <<>>

Init == \E k \in {0, BATCH_SIZE - Headroom} : InitWith(k, MaxCalls)

Next ==
    \/ \E p \in Producers : Track(p, SampleEvent)
    \/ \E p \in Producers, c \in BOOLEAN : TrackIf(p, SampleEvent, c)
    \/ \E p, q \in Producers : CloneHandle(p, q)
    \/ \E p \in Producers : DropHandle(p)
    \/ SkipFirstTick
    \/ RecvEvent
    \/ RecvNone
    \/ TimerTick
    \/ \E o \in Outcomes : SendBatchReturns(o)
    \/ RuntimeShutdown
    \/ Advance(CoarseStep, MaxTime)

Spec == Init /\ [][Next]_vars

(* A fresh client with a prompt dispatcher: the task takes every step it   *)
(* can take before time moves on; the producer calls at any instant and the *)
(* POST takes any time.                                                     *)

NextPrompt ==
    \/ Track("p1", SampleEvent)
    \/ SkipFirstTick
    \/ RecvEvent
    \/ TimerTick
    \/ \E o \in Outcomes : SendBatchReturns(o)
    \/ AdvancePrompt

SpecPrompt == Init /\ [][NextPrompt]_vars

(* Scenario C: the endpoint is unreachable, every POST attempt fails.        *)

NextFailing ==
    \/ Track("p1", SampleEvent)
    \/ SkipFirstTick
    \/ RecvEvent
    \/ TimerTick
    \/ \E o \in FailureOutcomes : SendBatchReturns(o)
    \/ AdvancePrompt

SpecFailing == Init /\ [][NextFailing]_vars

(* Scenario A: on a fresh client with a prompt dispatcher one producer      *)
(* tracks two and a half batches of events back to back.                    *)

ScenarioAEvents == 2 * BATCH_SIZE + BATCH_SIZE \div 2

InitBurst == InitWith(0, ScenarioAEvents)

NextBurst ==
    \/ Track("p1", SampleEvent)
    \/ SkipFirstTick
    \/ RecvEvent
    \/ TimerTick
    \/ \E o \in Outcomes : SendBatchReturns(o)
    \/ AdvanceAfterBurst

SpecBurst == InitBurst /\ [][NextBurst]_vars

(* The prompt dispatcher on a runtime that polls every task that can run,   *)
(* with a Transport whose every attempt returns and a clock that goes on:   *)
(* no step that stays possible is put off for ever.                         *)

Fairness ==
    /\ WF_vars(SkipFirstTick)
    /\ WF_vars(RecvEvent)
    /\ WF_vars(TimerTick)
    /\ WF_vars(\E o \in Outcomes : SendBatchReturns(o))
    /\ WF_vars(AdvancePrompt)

SpecLive == Init /\ [][NextPrompt]_vars /\ Fairness

(* The only handle tracks and is dropped at any moment, which closes the    *)
(* channel; the runtime lives on, and the dispatcher is prompt.              *)

NextOrphan ==
    \/ Track("p1", SampleEvent)
    \/ DropHandle("p1")
    \/ SkipFirstTick
    \/ RecvEvent
    \/ RecvNone
    \/ TimerTick
    \/ \E o \in Outcomes : SendBatchReturns(o)
    \/ AdvancePrompt

SpecOrphan == Init /\ [][NextOrphan]_vars

(* A client is built, on a thread inside a runtime or on a plain thread (as  *)
(* a #[test] function is), and then used by one producer.                   *)

InitPending ==
    /\ handles = {}
    /\ calls_made = [p \in Producers |-> 0]
    /\ calls_left = MaxCalls
    /\ last_call = NoCall
    /\ runtime \in BOOLEAN
    /\ construction = "pending"
    /\ tasks = 0
    /\ analytics_url = ""
    /\ environ = NoTags
    /\ queue = <<>>
    /\ pc = "unspawned"
    /\ batch = <<>>
    /\ now = 0
    /\ deadline = 0
    /\ last_tick = -1
    /\ inflight = <<>>
    /\ last_outcome = "none"
    /\ log = "none"
    /\ pushed = <<>>
    /\ handed = <<>>
    /\ flushes = <<>>

NextConstruct ==
    \/ new(ServiceUrl)
    \/ noop
    \/ Track("p1", SampleEvent)
    \/ SkipFirstTick
    \/ RecvEvent
    \/ TimerTick
    \/ \E o \in Outcomes : SendBatchReturns(o)
    \/ AdvancePrompt

SpecConstruct == InitPending /\ [][NextConstruct]_vars

(* A fresh client whose producer tracks events of any variant of the        *)
(* catalog back to back, in a process with or without the two tags set.     *)

CatalogCalls == MaxCalls - 1

TagStates ==
    [HOSTNAME : {<<>>, <<"web-1">>}, ENVIRONMENT : {<<>>, <<"production">>}]

InitCatalog ==
    \E tags \in TagStates :
          /\ handles = {"p1"}
          /\ calls_made = [p \in Producers |-> 0]
          /\ calls_left = CatalogCalls
          /\ last_call = NoCall
          /\ runtime = TRUE
          /\ construction = "returned"
          /\ tasks = 1
          /\ analytics_url = ServiceUrl
          /\ environ = tags
          /\ queue = <<>>
          /\ pc = "init"
          /\ batch = <<>>
          /\ now = 0
          /\ deadline = 0
          /\ last_tick = -1
          /\ inflight = <<>>
          /\ last_outcome = "none"
          /\ log = "none"
          /\ pushed = <<>>
          /\ handed = <<>>
          /\ flushes = <<>>

NextCatalog ==
    \/ \E v \in Variants : Track("p1", v)
    \/ SkipFirstTick
    \/ RecvEvent
    \/ TimerTick
    \/ \E o \in Outcomes : SendBatchReturns(o)
    \/ AdvanceAfterBurst

SpecCatalog == InitCatalog /\ [][NextCatalog]_vars

(* A fresh client with a prompt dispatcher, in a process that sets and      *)
(* removes the two tags between the producer's calls.                        *)

NextTags ==
    \/ Track("p1", SampleEvent)
    \/ \E tags \in TagStates : SetEnv(tags)
    \/ SkipFirstTick
    \/ RecvEvent
    \/ TimerTick
    \/ \E o \in Outcomes : SendBatchReturns(o)
    \/ AdvancePrompt

SpecTags == InitCatalog /\ [][NextTags]_vars

(* ------------------------------------------------------------------ *)
(* Properties                                                           *)
(* ------------------------------------------------------------------ *)

\* what the dispatcher still holds for a later flush: the batch, unless the
\* batch is the one being sent
Pending == IF pc = "sending" THEN <<>> ELSE batch

\* a producer call that enriched an event has just returned
EnrichingCall == calls_left' = calls_left - 1

\* C1: every track call returns normally (the unit value, never an error) and
\* is never made to wait, whatever the dispatcher is doing (not yet polled,
\* accumulating, awaiting a POST, gone) and whatever the last POST came to;
\* with the dispatcher gone the envelope is dropped: queue and history stay.
C1_TrackNeverFailsNorWaits ==
    /\ [](\A p \in handles : calls_left > 0 => ENABLED Track(p, SampleEvent))
    /\ [][EnrichingCall =>
            /\ last_call'.ret = "unit"
            /\ pc = "terminated" =>
                  /\ ~last_call'.sent
                  /\ UNCHANGED <<queue, pushed, batch, handed>>
            /\ pc # "terminated" =>
                  /\ last_call'.sent
                  /\ Len(queue') = Len(queue) + 1]_vars

\* a track call made after the dispatcher was dropped, following a failed
\* flush, has returned and left nothing behind
C1_Witness ==
    /\ pc = "terminated"
    /\ last_call.op = "track"
    /\ ~last_call.sent
    /\ last_call.ret = "unit"
    /\ last_outcome = "transport_error"
    /\ queue = <<>>

\* C2: with two producers tracking through handles of one client, no envelope
\* is handed to the Transport twice (in one batch or in two), and while the
\* dispatcher lives every accepted envelope is in exactly one place: handed
\* to the Transport, in the batch, or in the queue.
C2_ExactlyOnce ==
    /\ Cardinality(Range(handed)) = Len(handed)
    /\ Range(handed) \subseteq Range(pushed)
    /\ ReceiverAlive =>
          /\ Cardinality(Range(pushed)) = Len(pushed)
          /\ Range(pushed) = Range(handed) \cup Range(Pending) \cup Range(queue)
          /\ Len(pushed) = Len(handed) + Len(Pending) + Len(queue)

\* both producers' envelopes, interleaved, have gone out in two batches and
\* a third envelope is still on its way
C2_Witness ==
    /\ ReceiverAlive
    /\ Len(flushes) = 2
    /\ Len(handed) >= 2
    /\ handed[1].producer = "p2"
    /\ handed[2].producer = "p1"
    /\ Len(pushed) > Len(handed)
    /\ pushed[Len(pushed)].producer = "p2"

\* steps of the dispatcher, told by what they change
FlushStarts == Len(flushes') = Len(flushes) + 1
RecvStep == pc = "select" /\ pc' # "terminated" /\ Len(queue') = Len(queue) - 1
TickStep == pc = "select" /\ deadline' = deadline + Period

\* C3 as stated: a flush starts exactly in the steps where the batch reaches
\* exactly 100 envelopes, or where the batch is non-empty and 10 time units
\* have passed since the timer was last checked.
C3_AsStated ==
    [][FlushStarts <=>
          \/ RecvStep /\ Len(batch') = BATCH_SIZE
          \/ TickStep /\ batch # <<>> /\ now - last_tick >= Period]_vars

\* C3 amended: a flush starts exactly in the steps where the batch reaches
\* exactly 100 envelopes, or where the batch is non-empty and a tick of the
\* interval is handled; ticks are scheduled every 10 time units (each deadline
\* is the previous deadline plus 10), and a tick is handled at or after its
\* deadline, so after a tick handled late the next one comes sooner than 10
\* time units later.
C3_FlushIffSizeOrTick ==
    /\ [][FlushStarts <=>
            \/ RecvStep /\ Len(batch') = BATCH_SIZE
            \/ TickStep /\ batch # <<>>]_vars
    /\ [][TickStep => now >= deadline /\ last_tick' = now]_vars
    /\ [][deadline' # deadline => TickStep \/ pc = "init"]_vars

\* a size-triggered flush was followed by a time-triggered one, started at a
\* tick handled exactly on its deadline
C3_Witness ==
    /\ Len(flushes) = 2
    /\ flushes[1] = [trigger |-> "size", size |-> BATCH_SIZE]
    /\ flushes[2].trigger = "time"
    /\ pc = "sending"
    /\ last_tick = now
    /\ deadline = now + Period

FlushReturns == pc = "sending" /\ pc' = "select"

\* C4: when a flush attempt returns, with whichever outcome (2xx, non-2xx,
\* transport error, serialization failure), the batch is empty; whatever the
\* dispatcher accumulates afterwards holds no envelope already handed to the
\* Transport.
C4_BatchEmptyAfterFlush ==
    /\ [][FlushReturns => batch' = <<>> /\ last_outcome' \in Outcomes]_vars
    /\ [](pc = "select" => Range(batch) \cap Range(handed) = {})

\* after an attempt that failed to serialize, a new batch is being accumulated
C4_Witness ==
    /\ pc = "select"
    /\ last_outcome = "serialization_error"
    /\ handed # <<>>
    /\ batch # <<>>
    /\ Range(batch) \cap Range(handed) = {}

\* a track_if call has just returned
TrackIfCall(c) ==
    /\ last_call'.op = "track_if"
    /\ last_call'.cond = c
    /\ last_call' # last_call \/ calls_left' # calls_left

\* C5: track_if(false, e) changes neither the queue nor the batch nor what
\* the Transport gets; track_if(true, e) changes the queue as track(e) does:
\* the enriched event is appended (dropped when the dispatcher is gone).
C5_TrackIf ==
    /\ [][TrackIfCall(FALSE) =>
            UNCHANGED <<queue, batch, pushed, handed, calls_made, inflight>>]_vars
    /\ [][TrackIfCall(TRUE) =>
            \E p \in handles :
               /\ calls_made' = [calls_made EXCEPT ![p] = @ + 1]
               /\ queue' = IF ReceiverAlive
                             THEN Append(queue, EnrichedEvent_new(SampleEvent, p, calls_made[p] + 1,
                                                                now))
                             ELSE queue
               /\ last_call'.ret = "unit"
               /\ UNCHANGED <<batch, handed, inflight>>]_vars

\* track_if(false, e) has returned with envelopes waiting in queue and batch
C5_Witness ==
    /\ last_call.op = "track_if"
    /\ ~last_call.cond
    /\ queue # <<>>
    /\ batch # <<>>
    /\ calls_left = MaxCalls - 2

\* the envelopes of producer p in s, in the order of s
Of(p, s) == SelectSeq(s, LAMBDA e : e.producer = p)

\* C7: envelopes of one producer are pushed in call order, and the batches
\* handed to the Transport, put end to end, are a prefix of the push order;
\* while the dispatcher lives the rest of the push order is the batch followed
\* by the queue.
C7_FifoOrder ==
    /\ \A p \in Producers :
          LET own == Of(p, pushed)
          IN  \A i \in 1..Len(own) : own[i].seq = i
    /\ Len(handed) <= Len(pushed)
    /\ handed = SubSeq(pushed, 1, Len(handed))
    /\ ReceiverAlive => pushed = handed \o Pending \o queue

\* two producers' envelopes went out in two batches, a later one waits
C7_Witness ==
    /\ Len(flushes) = 2
    /\ Len(Of("p1", handed)) >= 1
    /\ Len(Of("p2", handed)) >= 1
    /\ handed[Len(handed)].producer = "p1"
    /\ queue # <<>>
    /\ pc = "select"

\* C8: at most one POST is in flight, the dispatcher is parked on it while it
\* is, and a flush starts only when none is.
C8_OneFlushInFlight ==
    /\ [](/\ Len(inflight) <= 1
          /\ inflight # <<>> <=> pc = "sending"
          /\ inflight # <<>> => inflight[1] = batch)
    /\ [][FlushStarts => inflight = <<>> /\ pc = "select"]_vars

\* a second flush is in flight after the first one returned with a failure
C8_Witness ==
    /\ Len(flushes) = 2
    /\ Len(inflight) = 1
    /\ last_outcome = "http_error"
    /\ queue # <<>>

\* C6: with every POST failing, each attempt that returns is logged as a
\* warning, its batch is dropped and not put back on the queue, and the loop
\* is back in select!; nothing is handed to the Transport twice; the next
\* receive or due tick can be taken, and every batch that reaches 100 and
\* every tick with a non-empty batch starts a flush; track keeps returning
\* unit without waiting.
C6_FailingTransport ==
    /\ [][FlushReturns =>
            /\ last_outcome' \in FailureOutcomes
            /\ log' = "warn"
            /\ batch' = <<>>
            /\ queue' = queue
            /\ pc' = "select"]_vars
    /\ [](Cardinality(Range(handed)) = Len(handed))
    /\ [][RecvStep /\ Len(batch') >= BATCH_SIZE => FlushStarts]_vars
    /\ [][TickStep /\ batch # <<>> => FlushStarts]_vars
    /\ [](pc = "select" /\ queue # <<>> => ENABLED RecvEvent)
    /\ [](pc = "select" /\ now >= deadline => ENABLED TimerTick)
    /\ [](last_call.ret \in {"none", "unit"})
    /\ [](calls_left > 0 => ENABLED Track("p1", SampleEvent))

\* a size-triggered and then a time-triggered flush have both failed, every
\* envelope tracked has been handed over once, and the loop is in select!
C6_Witness ==
    /\ Len(flushes) = 2
    /\ flushes[1].trigger = "size"
    /\ flushes[2].trigger = "time"
    /\ pc = "select"
    /\ last_outcome = "transport_error"
    /\ log = "warn"
    /\ batch = <<>>
    /\ handed = pushed
    /\ last_call.ret = "unit"

SizeFlush == [trigger |-> "size", size |-> BATCH_SIZE]
RestFlush == [trigger |-> "time", size |-> ScenarioAEvents - 2 * BATCH_SIZE]

\* no tick of the interval has been handled since the loop started
NoTickYet == deadline <= Period

\* C9 as stated: of 250 events tracked back to back on a fresh client, the
\* first two flushes are size-triggered with 100 envelopes each, the third
\* is time-triggered with the remaining 50, and there is no other.
C9_AsStated ==
    /\ Len(flushes) <= 3
    /\ Len(flushes) >= 1 => flushes[1] = SizeFlush
    /\ Len(flushes) >= 2 => flushes[2] = SizeFlush
    /\ Len(flushes) >= 3 => flushes[3] = RestFlush

\* C9 amended: as long as no tick has been handled, every flush is
\* size-triggered with exactly 100 envelopes and there are at most two; when
\* the first tick is handled after all 250 envelopes have been received, two
\* such flushes have happened and that tick flushes the remaining 50 together.
C9_BurstFlushes ==
    /\ [](NoTickYet =>
            /\ Len(flushes) <= 2
            /\ \A i \in 1..Len(flushes) : flushes[i] = SizeFlush)
    /\ [][TickStep /\ NoTickYet /\ calls_left = 0 /\ queue = <<>> =>
            /\ flushes = <<SizeFlush, SizeFlush>>
            /\ flushes' = <<SizeFlush, SizeFlush, RestFlush>>
            /\ handed' = pushed]_vars

\* two full batches went out before the first tick, which took the other 50
C9_Witness ==
    /\ flushes = <<SizeFlush, SizeFlush, RestFlush>>
    /\ Len(handed) = ScenarioAEvents
    /\ deadline = 2 * Period
    /\ last_tick = Period

\* exactly one event has been tracked
OnlyOne == Len(pushed) = 1 /\ calls_made = [p \in Producers |-> IF p = "p1" THEN 1 ELSE 0]

\* C10: with exactly one event tracked, at most one flush ever starts, and
\* once a full timer interval has passed since the call (and the dispatcher
\* has taken the steps it could) exactly one flush has started, time-triggered,
\* holding exactly that envelope.
C10_SingleEvent ==
    /\ OnlyOne /\ flushes # <<>> =>
          /\ flushes = <<[trigger |-> "time", size |-> 1]>>
          /\ handed = pushed
    /\ OnlyOne /\ now >= pushed[1].timestamp + Period /\ ~DispatcherReady =>
          /\ flushes = <<[trigger |-> "time", size |-> 1]>>
          /\ handed = pushed

\* an event tracked in the middle of an interval, one interval later
C10_Witness ==
    /\ OnlyOne
    /\ pushed[1].timestamp = FineStep
    /\ now = pushed[1].timestamp + Period
    /\ ~DispatcherReady
    /\ flushes = <<[trigger |-> "time", size |-> 1]>>
    /\ inflight = <<>>

\* C11: building a client with new(url) or noop() and then tracking on it
\* does not panic, also when the building thread has entered no async runtime
\* (as in the repository's tests): the construction never panics, and once it
\* has returned a track call can be made and returns the unit value.
C11_NoPanic ==
    /\ construction # "panicked"
    /\ construction = "returned" /\ calls_left > 0 =>
          ENABLED Track("p1", SampleEvent)
    /\ last_call.ret \in {"none", "unit"}

\* a handle has just been cloned
CloneStep == \E q \in Producers : q \notin handles /\ handles' = handles \cup {q}

\* C12: a constructed client has exactly one dispatcher task, whatever is
\* cloned or dropped afterwards; cloning a handle starts no task and leaves
\* the queue, the configuration and the dispatcher as they are; and a track
\* call through any handle, the first or a clone, appends its envelope to the
\* one queue that dispatcher receives from.
C12_OneQueueOneDispatcher ==
    /\ [](construction = "returned" => tasks = 1)
    /\ [][CloneStep =>
            UNCHANGED <<tasks, analytics_url, queue, pc, batch, inflight, pushed>>]_vars
    /\ [][EnrichingCall /\ ReceiverAlive =>
            /\ queue' = Append(queue, pushed'[Len(pushed')])
            /\ UNCHANGED <<tasks, pc, batch>>]_vars
    /\ [][RecvStep => batch' = Append(batch, Head(queue))]_vars

\* an envelope tracked through the clone was received after one tracked
\* through the first handle, and both have been handed to the Transport
C12_Witness ==
    /\ handles = Producers
    /\ tasks = 1
    /\ Len(handed) = 2
    /\ handed[1].producer = "p1"
    /\ handed[2].producer = "p2"

\* the envelopes of s carry the timestamps of the envelopes pushed at places
\* from + 1, from + 2, ... of the push order
SameTimestamps(s, from) ==
    \A i \in 1..Len(s) :
       /\ from + i <= Len(pushed)
       /\ s[i].producer = pushed[from + i].producer
       /\ s[i].seq = pushed[from + i].seq
       /\ s[i].timestamp = pushed[from + i].timestamp

\* C13: the timestamp of an envelope is the instant of its track call, and
\* it is the same wherever the envelope is later found: in the queue, in the
\* batch, in the body of the POST in flight and among the envelopes handed to
\* the Transport, however long it waited.
C13_CaptureTimeFixed ==
    /\ [][EnrichingCall /\ ReceiverAlive =>
            /\ Len(pushed') = Len(pushed) + 1
            /\ pushed'[Len(pushed')].timestamp = now
            /\ SubSeq(pushed', 1, Len(pushed)) = pushed]_vars
    /\ [](SameTimestamps(handed, 0))
    /\ [](inflight # <<>> =>
            SameTimestamps(inflight[1], Len(handed) - Len(inflight[1])))
    /\ [](SameTimestamps(Pending \o queue, Len(handed)))

\* an envelope tracked while a POST was in flight waited in the queue and in
\* the batch, and is in the body of a POST started at a later tick
C13_Witness ==
    /\ Len(flushes) = 2
    /\ flushes[2].trigger = "time"
    /\ pc = "sending"
    /\ last_tick = now
    /\ inflight[1][1].timestamp < now
    /\ inflight[1][1].timestamp > 0
    /\ handed[Len(handed)].timestamp = pushed[Len(pushed)].timestamp

\* the body of the POST in flight
PostBody == JsonBody(inflight[1])

\* C14: the body of a POST is an array with one object per envelope of the
\* batch, in batch order, and each object has the key "type", holding the
\* snake_case name of its event's variant, at its top level next to the keys
\* "timestamp", "hostname" and "environment".
C14_TypeAtTopLevel ==
    inflight # <<>> =>
       /\ Len(PostBody) = Len(batch)
       /\ \A i \in 1..Len(batch) :
             /\ {"type", "timestamp", "hostname", "environment"}
                   \subseteq DOMAIN PostBody[i]
             /\ PostBody[i].type = snake_case(VariantName[batch[i].variant])
             /\ PostBody[i].timestamp = batch[i].timestamp
             /\ PostBody[i].hostname = batch[i].hostname
             /\ PostBody[i].environment = batch[i].environment

\* C20: for every event tracked, of whichever variant of the catalog,
\* event_type() returns the string under which the event is tagged when it is
\* serialized in the body of a POST (the variant name put through the
\* serializer's snake_case rule).
C20_EventTypeIsTag ==
    /\ \A i \in 1..Len(pushed) :
          event_type(pushed[i].variant) = SerializeEvent(pushed[i]).type
    /\ inflight # <<>> =>
          \A i \in 1..Len(batch) :
             event_type(batch[i].variant) = PostBody[i].event.type

\* C15: a size-triggered flush, from its start to its return, leaves the
\* timer as it is: the next tick stays due at the deadline it had, so every
\* deadline is a whole number of periods after the start of the interval
\* (instant 0 here); the tick that follows can be taken as soon as the loop is
\* back in select! at or after that deadline, and it flushes the batch
\* accumulated since, whole.
C15_SizeFlushKeepsTimer ==
    /\ [][FlushStarts /\ RecvStep => UNCHANGED <<deadline, last_tick>>]_vars
    /\ [][FlushReturns => UNCHANGED <<deadline, last_tick>>]_vars
    /\ [](pc \in {"select", "sending"} => deadline % Period = 0)
    /\ [](pc = "select" /\ now >= deadline => ENABLED TimerTick)
    /\ [][TickStep /\ batch # <<>> =>
            /\ inflight' = <<batch>>
            /\ flushes' = Append(flushes, [trigger |-> "time", size |-> Len(batch)])]_vars

\* a batch filled up in the middle of the first period and was flushed there;
\* the tick at the end of that period was handed the envelope tracked since
C15_Witness ==
    /\ Len(flushes) = 2
    /\ flushes[1] = [trigger |-> "size", size |-> BATCH_SIZE]
    /\ handed[BATCH_SIZE].timestamp = FineStep
    /\ flushes[2] = [trigger |-> "time", size |-> 1]
    /\ last_tick = Period
    /\ now = Period
    /\ handed[Len(handed)].timestamp > FineStep

\* q2 is q, or q with one more envelope at its end
GrownBy01(q, q2) ==
    \/ q2 = q
    \/ Len(q2) = Len(q) + 1 /\ SubSeq(q2, 1, Len(q)) = q

\* C16: while a POST is in flight no step takes an envelope from the queue,
\* adds one to the batch or changes the body being sent: the queue only
\* grows, by the envelopes tracked meanwhile, each of which stays where it
\* was put; an envelope leaves the queue only with the loop in select! and no
\* POST in flight, the flush that returns leaves the queue as it is and the
\* batch empty, and the loop can then receive.
C16_NoReceiveDuringFlush ==
    /\ [][pc = "sending" =>
            /\ GrownBy01(queue, queue')
            /\ batch' = batch \/ (FlushReturns /\ batch' = <<>>)
            /\ inflight' = inflight \/ (FlushReturns /\ inflight' = <<>>)
            /\ handed' = handed]_vars
    /\ [][Len(queue') < Len(queue) =>
            /\ pc = "select"
            /\ inflight = <<>>
            /\ queue' = Tail(queue)
            /\ batch' = Append(batch, Head(queue))]_vars
    /\ [][FlushReturns => queue' = queue /\ batch' = <<>>]_vars
    /\ [](pc = "select" /\ queue # <<>> => ENABLED RecvEvent)

\* two envelopes tracked after a time-triggered flush began wait in the queue
\* while its POST is in flight
C16_Witness ==
    /\ pc = "sending"
    /\ flushes = <<[trigger |-> "time", size |-> 1]>>
    /\ Len(queue) = 2
    /\ queue[1].timestamp > last_tick
    /\ inflight = <<batch>>

\* C17: the batch never holds more than 100 envelopes; when it holds 100 a
\* size-triggered flush of exactly that batch is in flight; every flush
\* started, and every body handed to the Transport, holds between 1 and 100
\* envelopes; and a tick handled with an empty batch starts no flush and
\* hands nothing to the Transport.
C17_BatchBounds ==
    /\ [](Len(batch) <= BATCH_SIZE)
    /\ [](Len(batch) = BATCH_SIZE =>
            /\ pc = "sending"
            /\ inflight = <<batch>>
            /\ flushes[Len(flushes)] = SizeFlush)
    /\ [](\A i \in 1..Len(flushes) : flushes[i].size \in 1..BATCH_SIZE)
    /\ [](\A i \in 1..Len(inflight) : Len(inflight[i]) \in 1..BATCH_SIZE)
    /\ [][FlushStarts =>
            /\ Len(handed') - Len(handed) = flushes'[Len(flushes')].size
            /\ Len(inflight'[1]) = flushes'[Len(flushes')].size]_vars
    /\ [][TickStep /\ batch = <<>> =>
            /\ pc' = "select"
            /\ UNCHANGED <<inflight, handed, flushes, batch, queue>>]_vars

\* a tick found the batch empty, and the loop went on
EmptyTickTaken == pc = "select" /\ last_tick = Period /\ flushes = <<SizeFlush>>

\* a full batch went out by size and returned, the next tick found the batch
\* empty and started nothing, and an envelope tracked after it is in the batch
C17_Witness ==
    /\ EmptyTickTaken
    /\ Len(handed) = BATCH_SIZE
    /\ Len(batch) = 1
    /\ batch[1].timestamp > Period
    /\ inflight = <<>>

\* every Sender has been dropped: the channel is closed
Closed == handles = {}

\* C18: as long as the runtime lives the task is in its loop (about to start
\* it, in select!, or awaiting a POST that brings it back to select!), also
\* once the channel is closed; then nothing is pushed any more, the loop
\* still receives every envelope left in the queue, flushes at 100 or at the
\* next tick handled with a non-empty batch, and with queue and batch empty
\* goes on taking every tick, each leaving it in select!.
C18_NoTerminalState ==
    /\ [](pc \in {"init", "select", "sending"})
    /\ [](pc = "init" => ENABLED SkipFirstTick)
    /\ [](pc = "sending" => \A o \in Outcomes : ENABLED SendBatchReturns(o))
    /\ [][FlushReturns => pc' = "select"]_vars
    /\ [](Closed /\ pc = "select" /\ queue # <<>> => ENABLED RecvEvent)
    /\ [](Closed /\ pc = "select" /\ now >= deadline => ENABLED TimerTick)
    /\ [][Closed => Closed' /\ pushed' = pushed]_vars
    /\ [][Closed /\ RecvStep =>
            /\ batch' = Append(batch, Head(queue))
            /\ FlushStarts <=> Len(batch') = BATCH_SIZE]_vars
    /\ [][Closed /\ TickStep =>
            /\ FlushStarts <=> batch # <<>>
            /\ pc' = IF batch # <<>> THEN "sending" ELSE "select"]_vars
    /\ [][Closed /\ queue = <<>> /\ pc = "select" /\ now < deadline =>
            pc' = "select" /\ batch' = batch]_vars

\* the handle was dropped with an envelope still on its way; it went out at
\* the first tick, and the loop has since taken the next tick with nothing
\* to send and waits for the one after
C18_Witness ==
    /\ Closed
    /\ pc = "select"
    /\ queue = <<>>
    /\ batch = <<>>
    /\ flushes = <<[trigger |-> "time", size |-> 1]>>
    /\ handed = pushed
    /\ last_tick = 2 * Period
    /\ deadline = 3 * Period

\* the last instant the clock of a prompt run reaches
LastInstant == (MaxTime \div FineStep) * FineStep

\* the n-th envelope pushed, counting those the run starts with
LiveCounts ==
    {k + j : k \in {0, BATCH_SIZE - Headroom}, j \in 0..MaxCalls} \ {0}

\* the n-th envelope pushed has been received / has been handed over
Received(n) == Len(handed) + Len(Pending) >= n
Handed(n) == Len(handed) >= n

\* C19: with every POST returning and the timer ticking, every envelope
\* pushed is eventually received into the batch or handed over at once, and
\* every envelope in the batch is eventually handed to the Transport when
\* the next tick is one the clock still reaches; the tick handled with the
\* envelope in the batch is the one that hands it over, with the whole batch.
C19_EventuallyHanded ==
    /\ \A n \in LiveCounts : (Len(pushed) >= n) ~> Received(n)
    /\ \A n \in LiveCounts :
          (Received(n) /\ deadline <= LastInstant) ~> Handed(n)
    /\ [][TickStep /\ batch # <<>> =>
            FlushStarts /\ handed' = handed \o batch]_vars

\* the last envelope was tracked after the first flush and waited for the
\* second tick, which handed it over
C19_Witness ==
    /\ Len(pushed) = MaxCalls
    /\ handed = pushed
    /\ Len(flushes) = 2
    /\ flushes[2].trigger = "time"
    /\ pushed[MaxCalls].timestamp > Period
    /\ last_tick = 2 * Period
    /\ last_outcome = "success"

\* the envelopes of s carry the tags of the envelopes pushed at places
\* from + 1, from + 2, ... of the push order
SameTags(s, from) ==
    \A i \in 1..Len(s) :
       /\ from + i <= Len(pushed)
       /\ s[i].seq = pushed[from + i].seq
       /\ s[i].hostname = pushed[from + i].hostname
       /\ s[i].environment = pushed[from + i].environment

\* C21: the envelope of a track call carries the host and environment tags
\* the process has at that call (null for one that is not set), whatever
\* they were when the client was built or at earlier calls; a change of the
\* tags leaves every envelope already created, in the queue, in the batch
\* or in a POST body, as it is, and every envelope keeps the tags it was
\* pushed with until it is handed to the Transport.
C21_TagsReadAtEachCall ==
    /\ [][EnrichingCall /\ ReceiverAlive =>
            /\ Len(pushed') = Len(pushed) + 1
            /\ pushed'[Len(pushed')].hostname = environ.HOSTNAME
            /\ pushed'[Len(pushed')].environment = environ.ENVIRONMENT
            /\ queue' = Append(queue, pushed'[Len(pushed')])
            /\ SubSeq(pushed', 1, Len(pushed)) = pushed]_vars
    /\ [][environ' # environ =>
            UNCHANGED <<queue, batch, inflight, pushed, handed>>]_vars
    /\ [](SameTags(handed, 0))
    /\ [](SameTags(Pending \o queue, Len(handed)))
    /\ [](inflight # <<>> =>
            /\ SameTags(inflight[1], Len(handed) - Len(inflight[1]))
            /\ \A i \in 1..Len(batch) :
                  /\ PostBody[i].hostname = batch[i].hostname
                  /\ PostBody[i].environment = batch[i].environment)

\* the process set HOSTNAME after the client was built and the first event
\* tracked, and removed ENVIRONMENT; the envelope tracked since carries the
\* new tags and the one that was waiting in the batch still the old ones
C21_Witness ==
    /\ Len(batch) = 1
    /\ Len(queue) = 1
    /\ batch[1].hostname = <<>>
    /\ batch[1].environment = <<"production">>
    /\ queue[1].hostname = <<"web-1">>
    /\ queue[1].environment = <<>>
    /\ environ = [HOSTNAME |-> <<"web-1">>, ENVIRONMENT |-> <<>>]
    /\ queue[1].timestamp > batch[1].timestamp

====
